---- MODULE Spec2Model ----
(***************************************************************************)
(* CPU scheduling simulator (src/josue/app.py): the four scheduling        *)
(* algorithms, the metrics calculator and the /simulate request handler.   *)
(* One behaviour is one request: the request is received (Init), parsed    *)
(* and dispatched (Dispatch), the chosen algorithm's loop runs one         *)
(* iteration per step, and compute_metrics builds the Result (Return).     *)
(***************************************************************************)
EXTENDS Integers, Sequences, FiniteSets, TLC

VARIABLES items, algo, quantum, procs, pc, loc, result

vars == <<items, algo, quantum, procs, pc, loc, result>>

(***************************************************************************)
(* Bounds of the enumerated requests.                                      *)
(***************************************************************************)
MaxProcs == 2
MaxArrival == 2
MaxBurst == 2
MaxPriority == 1
MaxQuantum == 2

\* quantum = int(data.get("quantum", 2))
DefaultQuantum == 2

(***************************************************************************)
(* Values.                                                                 *)
(***************************************************************************)
\* pids are Python strings; sorted() compares them as strings.  For the names
\* used here string order is the order of this list.
PidNames == <<"P1", "P2", "P3", "P4", "P5">>

PidRank(pid) == CHOOSE k \in 1..Len(PidNames) : PidNames[k] = pid

Process(pid, arrival, burst, priority) ==
    [pid |-> pid, arrival |-> arrival, burst |-> burst, priority |-> priority]

Slice(pid, start, end) == [pid |-> pid, start |-> start, end |-> end]

\* Optional[int]: None is the empty sequence, a value v is <<v>>.
None == << >>
Some(v) == <<v>>

Min2(a, b) == IF a <= b THEN a ELSE b
Max2(a, b) == IF a >= b THEN a ELSE b

MinOfSet(S) == CHOOSE x \in S : \A y \in S : x <= y
MaxOfSet(S) == CHOOSE x \in S : \A y \in S : x >= y

Abs(a) == IF a < 0 THEN 0 - a ELSE a

RECURSIVE GCD(_, _)
GCD(a, b) == IF b = 0 THEN a ELSE GCD(b, a % b)

\* Python's a / n on integers: the quotient, kept exact as a reduced fraction.
\* n = 0 raises ZeroDivisionError, kept as the fraction with den = 0.
Ratio(a, n) ==
    IF n = 0 THEN [num |-> a, den |-> 0]
    ELSE LET g == GCD(Abs(a), n)
         IN [num |-> a \div g, den |-> n \div g]

RECURSIVE SumOfMap(_, _)
SumOfMap(f, S) ==
    IF S = {} THEN 0
    ELSE LET x == CHOOSE y \in S : TRUE
         IN f[x] + SumOfMap(f, S \ {x})

\* Python compares key tuples lexicographically.
TupleLess(a, b) ==
    \E k \in 1..Len(a) : a[k] < b[k] /\ \A j \in 1..(k - 1) : a[j] = b[j]

ArrivalKey(p) == <<p.arrival>>
ArrivalPidKey(p) == <<p.arrival, PidRank(p.pid)>>
SjfKey(p) == <<p.burst, p.arrival, PidRank(p.pid)>>
PriorityKey(p) == <<p.priority, p.arrival, PidRank(p.pid)>>

\* The key lambdas of the four sorts.
SortKey(p, key) ==
    CASE key = "arrival" -> ArrivalKey(p)
      [] key = "arrival_pid" -> ArrivalPidKey(p)
      [] key = "sjf" -> SjfKey(p)
      [] key = "priority" -> PriorityKey(p)

\* sorted(s, key=...) / s.sort(key=...): a stable sort, ascending by key.
SortBy(s, key) ==
    LET n == Len(s)
        pos(j) == 1 + Cardinality({k \in 1..n :
                        \/ TupleLess(SortKey(s[k], key), SortKey(s[j], key))
                        \/ (SortKey(s[k], key) = SortKey(s[j], key) /\ k < j)})
    IN [r \in 1..n |-> s[CHOOSE j \in 1..n : pos(j) = r]]

(***************************************************************************)
(* compute_metrics                                                         *)
(***************************************************************************)
SliceIndexes(timeline, pid) == {k \in 1..Len(timeline) : timeline[k].pid = pid}

\* first_start[pid]: the start of the first slice of pid in timeline order.
FirstStart(timeline, pid) ==
    IF SliceIndexes(timeline, pid) = {} THEN None
    ELSE Some(timeline[MinOfSet(SliceIndexes(timeline, pid))].start)

\* Variant: finish_time is set by the first slice of pid only.
FinishTime_OfFirstSlice(timeline, pid) ==
    IF SliceIndexes(timeline, pid) = {} THEN 0
    ELSE timeline[MinOfSet(SliceIndexes(timeline, pid))].end

\* finish_time[pid]: the end of the last slice of pid in timeline order, else 0.
FinishTime(timeline, pid) ==
    IF SliceIndexes(timeline, pid) = {} THEN 0
    ELSE timeline[MaxOfSet(SliceIndexes(timeline, pid))].end

\* Variant: the waiting time is taken to be the response time.
compute_metrics_WaitIsResponse(algorithm, processes, timeline) ==
    LET pids == {processes[k].pid : k \in 1..Len(processes)}
        proc(pid) == processes[MaxOfSet({k \in 1..Len(processes) : processes[k].pid = pid})]
        rt(p) == IF FirstStart(timeline, p.pid) # None
                 THEN FirstStart(timeline, p.pid)[1] - p.arrival ELSE 0
        tt(p) == FinishTime(timeline, p.pid) - p.arrival
        response_times == [pid \in pids |-> rt(proc(pid))]
        turnaround_times == [pid \in pids |-> tt(proc(pid))]
        n == Max2(1, Len(processes))
    IN [algorithm |-> algorithm,
        timeline |-> timeline,
        waiting_times |-> response_times,
        response_times |-> response_times,
        turnaround_times |-> turnaround_times,
        avg_waiting |-> Ratio(SumOfMap(response_times, pids), n),
        avg_response |-> Ratio(SumOfMap(response_times, pids), n),
        avg_turnaround |-> Ratio(SumOfMap(turnaround_times, pids), n)]

\* Variant: the averages divide by len(procs), without max(1, ...).
compute_metrics_NoFloor(algorithm, processes, timeline) ==
    LET pids == {processes[k].pid : k \in 1..Len(processes)}
        proc(pid) == processes[MaxOfSet({k \in 1..Len(processes) : processes[k].pid = pid})]
        rt(p) == IF FirstStart(timeline, p.pid) # None
                 THEN FirstStart(timeline, p.pid)[1] - p.arrival ELSE 0
        tt(p) == FinishTime(timeline, p.pid) - p.arrival
        wt(p) == tt(p) - p.burst
        response_times == [pid \in pids |-> rt(proc(pid))]
        turnaround_times == [pid \in pids |-> tt(proc(pid))]
        waiting_times == [pid \in pids |-> wt(proc(pid))]
        n == Len(processes)
    IN [algorithm |-> algorithm,
        timeline |-> timeline,
        waiting_times |-> waiting_times,
        response_times |-> response_times,
        turnaround_times |-> turnaround_times,
        avg_waiting |-> Ratio(SumOfMap(waiting_times, pids), n),
        avg_response |-> Ratio(SumOfMap(response_times, pids), n),
        avg_turnaround |-> Ratio(SumOfMap(turnaround_times, pids), n)]

compute_metrics(algorithm, processes, timeline) ==
    LET pids == {processes[k].pid : k \in 1..Len(processes)}
        \* the dicts are filled in list order: the last process of a pid wins
        proc(pid) == processes[MaxOfSet({k \in 1..Len(processes) : processes[k].pid = pid})]
        rt(p) == IF FirstStart(timeline, p.pid) # None
                 THEN FirstStart(timeline, p.pid)[1] - p.arrival ELSE 0
        tt(p) == FinishTime(timeline, p.pid) - p.arrival
        wt(p) == tt(p) - p.burst
        response_times == [pid \in pids |-> rt(proc(pid))]
        turnaround_times == [pid \in pids |-> tt(proc(pid))]
        waiting_times == [pid \in pids |-> wt(proc(pid))]
        n == Max2(1, Len(processes))
    IN [algorithm |-> algorithm,
        timeline |-> timeline,
        waiting_times |-> waiting_times,
        response_times |-> response_times,
        turnaround_times |-> turnaround_times,
        avg_waiting |-> Ratio(SumOfMap(waiting_times, pids), n),
        avg_response |-> Ratio(SumOfMap(response_times, pids), n),
        avg_turnaround |-> Ratio(SumOfMap(turnaround_times, pids), n)]

(***************************************************************************)
(* fcfs: the locals before the loop, the loop condition, one iteration.    *)
(***************************************************************************)
FcfsInit(processes) ==
    [procs |-> SortBy(processes, "arrival"), t |-> 0, i |-> 0, timeline |-> << >>]

FcfsMore(s) == s.i < Len(s.procs)

\* Variant: the loop body without t += p.burst.
FcfsStep_NoClockAdvance(s) ==
    LET p == s.procs[s.i + 1]
        t1 == IF s.t < p.arrival THEN p.arrival ELSE s.t
    IN [s EXCEPT !.timeline = Append(@, Slice(p.pid, t1, t1 + p.burst)),
                 !.t = t1,
                 !.i = @ + 1]

\* Variant: the loop body without the jump to p.arrival.
FcfsStep_NoIdleJump(s) ==
    LET p == s.procs[s.i + 1]
    IN [s EXCEPT !.timeline = Append(@, Slice(p.pid, s.t, s.t + p.burst)),
                 !.t = s.t + p.burst,
                 !.i = @ + 1]

FcfsStep(s) ==
    LET p == s.procs[s.i + 1]
        t1 == IF s.t < p.arrival THEN p.arrival ELSE s.t
    IN [s EXCEPT !.timeline = Append(@, Slice(p.pid, t1, t1 + p.burst)),
                 !.t = t1 + p.burst,
                 !.i = @ + 1]

RECURSIVE FcfsRun(_)
FcfsRun(s) == IF FcfsMore(s) THEN FcfsRun(FcfsStep(s)) ELSE s

FcfsLabel == <<"FCFS">>

fcfs(processes) ==
    compute_metrics(FcfsLabel, processes, FcfsRun(FcfsInit(processes)).timeline)

(***************************************************************************)
(* sjf_non_preemptive and priority_non_preemptive                          *)
(***************************************************************************)
ReadyInit(processes) ==
    [procs |-> SortBy(processes, "arrival"), t |-> 0, i |-> 0,
     ready |-> << >>, timeline |-> << >>]

ReadyMore(s) == s.i < Len(s.procs) \/ s.ready # << >>

\* Variant: a process is admitted only when its arrival is before the clock.
RECURSIVE AdmitReady_Strict(_)
AdmitReady_Strict(s) ==
    IF s.i < Len(s.procs) /\ s.procs[s.i + 1].arrival < s.t
    THEN AdmitReady_Strict([s EXCEPT !.ready = Append(@, s.procs[s.i + 1]), !.i = @ + 1])
    ELSE s

\* while i < len(procs) and procs[i].arrival <= t: ready.append(procs[i]); i += 1
RECURSIVE AdmitReady(_)
AdmitReady(s) ==
    IF s.i < Len(s.procs) /\ s.procs[s.i + 1].arrival <= s.t
    THEN AdmitReady([s EXCEPT !.ready = Append(@, s.procs[s.i + 1]), !.i = @ + 1])
    ELSE s

\* Variant: the ready list is not sorted before its head is taken.
SjfStep_NoSort(s) ==
    LET a == AdmitReady(s)
    IN IF a.ready = << >>
       THEN [a EXCEPT !.t = a.procs[a.i + 1].arrival]
       ELSE LET p == Head(a.ready)
            IN [a EXCEPT !.ready = Tail(a.ready),
                         !.timeline = Append(@, Slice(p.pid, a.t, a.t + p.burst)),
                         !.t = a.t + p.burst]


\* Variant: with nothing ready the clock jumps to the arrival of the last
\* process instead of the next one.
SjfStep_JumpToLast(s) ==
    LET a == AdmitReady(s)
    IN IF a.ready = << >>
       THEN [a EXCEPT !.t = a.procs[Len(a.procs)].arrival]
       ELSE LET sorted == SortBy(a.ready, "sjf")
                p == Head(sorted)
            IN [a EXCEPT !.ready = Tail(sorted),
                         !.timeline = Append(@, Slice(p.pid, a.t, a.t + p.burst)),
                         !.t = a.t + p.burst]


SjfStep(s) ==
    LET a == AdmitReady(s)
    IN IF a.ready = << >>
       THEN [a EXCEPT !.t = a.procs[a.i + 1].arrival]
       ELSE LET sorted == SortBy(a.ready, "sjf")
                p == Head(sorted)
            IN [a EXCEPT !.ready = Tail(sorted),
                         !.timeline = Append(@, Slice(p.pid, a.t, a.t + p.burst)),
                         !.t = a.t + p.burst]

RECURSIVE SjfRun(_)
SjfRun(s) == IF ReadyMore(s) THEN SjfRun(SjfStep(s)) ELSE s

SjfLabel == <<"SJF (non-preemptive)">>

sjf_non_preemptive(processes) ==
    compute_metrics(SjfLabel, processes, SjfRun(ReadyInit(processes)).timeline)

\* Variant: the ready list is sorted by (arrival, pid) only, the priority is ignored.
PriorityStep_ArrivalOrder(s) ==
    LET a == AdmitReady(s)
    IN IF a.ready = << >>
       THEN [a EXCEPT !.t = a.procs[a.i + 1].arrival]
       ELSE LET sorted == SortBy(a.ready, "arrival_pid")
                p == Head(sorted)
            IN [a EXCEPT !.ready = Tail(sorted),
                         !.timeline = Append(@, Slice(p.pid, a.t, a.t + p.burst)),
                         !.t = a.t + p.burst]


\* Variant: a more urgent process that arrives during the slice cuts it; the
\* running process goes back to the ready list with the rest of its burst.
PriorityStep_Preemptive(s) ==
    LET a == AdmitReady(s)
    IN IF a.ready = << >>
       THEN [a EXCEPT !.t = a.procs[a.i + 1].arrival]
       ELSE LET sorted == SortBy(a.ready, "priority")
                p == Head(sorted)
                urgent == {a.procs[k].arrival : k \in
                              {j \in (a.i + 1)..Len(a.procs) :
                                  /\ a.procs[j].arrival < a.t + p.burst
                                  /\ a.procs[j].priority < p.priority}}
                end == IF urgent = {} THEN a.t + p.burst ELSE MinOfSet(urgent)
                rest == IF urgent = {} THEN Tail(sorted)
                        ELSE Append(Tail(sorted),
                                    [p EXCEPT !.burst = p.burst - (end - a.t)])
            IN [a EXCEPT !.ready = rest,
                         !.timeline = Append(@, Slice(p.pid, a.t, end)),
                         !.t = end]


PriorityStep(s) ==
    LET a == AdmitReady(s)
    IN IF a.ready = << >>
       THEN [a EXCEPT !.t = a.procs[a.i + 1].arrival]
       ELSE LET sorted == SortBy(a.ready, "priority")
                p == Head(sorted)
            IN [a EXCEPT !.ready = Tail(sorted),
                         !.timeline = Append(@, Slice(p.pid, a.t, a.t + p.burst)),
                         !.t = a.t + p.burst]

RECURSIVE PriorityRun(_)
PriorityRun(s) == IF ReadyMore(s) THEN PriorityRun(PriorityStep(s)) ELSE s

PriorityLabel == <<"Priority (non-preemptive)">>

priority_non_preemptive(processes) ==
    compute_metrics(PriorityLabel, processes, PriorityRun(ReadyInit(processes)).timeline)

(***************************************************************************)
(* round_robin                                                             *)
(***************************************************************************)
RoundRobinInit(processes, q) ==
    [procs |-> SortBy(processes, "arrival"), t |-> 0, i |-> 0,
     queue |-> << >>, quantum |-> q, timeline |-> << >>]

RoundRobinMore(s) == s.i < Len(s.procs) \/ s.queue # << >>

\* while i < len(procs) and procs[i].arrival <= t:
\*     queue.append((procs[i], procs[i].burst)); i += 1
RECURSIVE AdmitQueue(_)
AdmitQueue(s) ==
    IF s.i < Len(s.procs) /\ s.procs[s.i + 1].arrival <= s.t
    THEN AdmitQueue([s EXCEPT
             !.queue = Append(@, [proc |-> s.procs[s.i + 1], rem |-> s.procs[s.i + 1].burst]),
             !.i = @ + 1])
    ELSE s

\* Variant: a preempted process is not re-appended.
RoundRobinStep_DropRemainder(s) ==
    LET a == AdmitQueue(s)
    IN IF a.queue = << >>
       THEN [a EXCEPT !.t = a.procs[a.i + 1].arrival]
       ELSE LET p == Head(a.queue).proc
                rem == Head(a.queue).rem
                use == Min2(a.quantum, rem)
                end == a.t + use
            IN AdmitQueue([a EXCEPT !.queue = Tail(@),
                                    !.timeline = Append(@, Slice(p.pid, a.t, end)),
                                    !.t = end])

\* Variant: the preempted process is re-appended before the arrivals are admitted.
RoundRobinStep_RequeueFirst(s) ==
    LET a == AdmitQueue(s)
    IN IF a.queue = << >>
       THEN [a EXCEPT !.t = a.procs[a.i + 1].arrival]
       ELSE LET p == Head(a.queue).proc
                rem == Head(a.queue).rem
                use == Min2(a.quantum, rem)
                end == a.t + use
                rest == IF rem - use > 0
                        THEN Append(Tail(a.queue), [proc |-> p, rem |-> rem - use])
                        ELSE Tail(a.queue)
            IN AdmitQueue([a EXCEPT !.queue = rest,
                                    !.timeline = Append(@, Slice(p.pid, a.t, end)),
                                    !.t = end])

\* Variant: use = quantum, not min(quantum, rem).
RoundRobinStep_FullQuantum(s) ==
    LET a == AdmitQueue(s)
    IN IF a.queue = << >>
       THEN [a EXCEPT !.t = a.procs[a.i + 1].arrival]
       ELSE LET p == Head(a.queue).proc
                rem == Head(a.queue).rem
                use == a.quantum
                end == a.t + use
                b == AdmitQueue([a EXCEPT !.queue = Tail(@),
                                          !.timeline = Append(@, Slice(p.pid, a.t, end)),
                                          !.t = end])
            IN IF rem - use > 0
               THEN [b EXCEPT !.queue = Append(@, [proc |-> p, rem |-> rem - use])]
               ELSE b

\* Variant: the queue is ordered by remaining burst before its head is
\* taken, as the ready lists of SJF and priority are sorted.
RoundRobinStep_ShortestRemaining(s) ==
    LET a == AdmitQueue(s)
    IN IF a.queue = << >>
       THEN [a EXCEPT !.t = a.procs[a.i + 1].arrival]
       ELSE LET n == Len(a.queue)
                pos(j) == 1 + Cardinality({k \in 1..n :
                                \/ a.queue[k].rem < a.queue[j].rem
                                \/ (a.queue[k].rem = a.queue[j].rem /\ k < j)})
                sorted == [r \in 1..n |-> a.queue[CHOOSE j \in 1..n : pos(j) = r]]
                p == Head(sorted).proc
                rem == Head(sorted).rem
                use == Min2(a.quantum, rem)
                end == a.t + use
                b == AdmitQueue([a EXCEPT !.queue = Tail(sorted),
                                          !.timeline = Append(@, Slice(p.pid, a.t, end)),
                                          !.t = end])
            IN IF rem - use > 0
               THEN [b EXCEPT !.queue = Append(@, [proc |-> p, rem |-> rem - use])]
               ELSE b

\* One iteration of the outer while loop.
RoundRobinStep(s) ==
    LET a == AdmitQueue(s)
    IN IF a.queue = << >>
       THEN [a EXCEPT !.t = a.procs[a.i + 1].arrival]
       ELSE LET p == Head(a.queue).proc
                rem == Head(a.queue).rem
                use == Min2(a.quantum, rem)
                end == a.t + use
                \* the slice is emitted, then the arrivals up to its end are
                \* admitted, then p is re-appended
                b == AdmitQueue([a EXCEPT !.queue = Tail(@),
                                          !.timeline = Append(@, Slice(p.pid, a.t, end)),
                                          !.t = end])
            IN IF rem - use > 0
               THEN [b EXCEPT !.queue = Append(@, [proc |-> p, rem |-> rem - use])]
               ELSE b

RECURSIVE RoundRobinRun(_)
RoundRobinRun(s) == IF RoundRobinMore(s) THEN RoundRobinRun(RoundRobinStep(s)) ELSE s

\* f"Round Robin (q={quantum})"
RoundRobinLabel(q) == <<"Round Robin (q=", q, ")">>

round_robin(processes, q) ==
    compute_metrics(RoundRobinLabel(q), processes,
                    RoundRobinRun(RoundRobinInit(processes, q)).timeline)

(***************************************************************************)
(* parse_processes and simulate_api                                        *)
(***************************************************************************)
\* Variant: the list is sorted by arrival only.
parse_processes_ArrivalOnly(its) == SortBy(its, "arrival")

\* procs.sort(key=lambda p: (p.arrival, p.pid))
parse_processes(its) == SortBy(its, "arrival_pid")

\* Variant: a quantum below 1 becomes the default quantum.
ClampQuantum_ToDefault(q) == IF q < 1 THEN DefaultQuantum ELSE q

\* max(1, quantum)
ClampQuantum(q) == Max2(1, q)

\* Variant: the final return runs SJF.
RunOneTarget_FallbackSjf(name) ==
    IF name = "FCFS" THEN "fcfs"
    ELSE IF name = "SJF" THEN "sjf"
    ELSE IF name = "PRIORITY" THEN "priority"
    ELSE IF name = "RR" THEN "rr"
    ELSE "sjf"

\* Variant: no branch for RR.
RunOneTarget_RRIsFcfs(name) ==
    IF name = "FCFS" THEN "fcfs"
    ELSE IF name = "SJF" THEN "sjf"
    ELSE IF name = "PRIORITY" THEN "priority"
    ELSE "fcfs"

\* run_one: which algorithm a name selects.
RunOneTarget(name) ==
    IF name = "FCFS" THEN "fcfs"
    ELSE IF name = "SJF" THEN "sjf"
    ELSE IF name = "PRIORITY" THEN "priority"
    ELSE IF name = "RR" THEN "rr"
    ELSE "fcfs"

(***************************************************************************)
(* The requests.                                                           *)
(***************************************************************************)
\* The processes of the page's default request (INDEX_HTML).
SeedItems ==
    << Process("P1", 0, 7, 2), Process("P2", 2, 4, 1),
       Process("P3", 4, 1, 3), Process("P4", 5, 4, 2) >>

\* Only priority_non_preemptive reads priority: the requests for the other
\* names leave it out, and parse_processes fills in its default 0.
Priorities(name) == IF name = "PRIORITY" THEN 0..MaxPriority ELSE {0}

Attrs(name) == (0..MaxArrival) \X (1..MaxBurst) \X Priorities(name)

\* Unique pids, listed in ascending or in descending order.
PidOrders(n) ==
    { [k \in 1..n |-> PidNames[k]], [k \in 1..n |-> PidNames[n + 1 - k]] }

\* The item list of n processes with the attributes a and the pids given.
Items(n, a, pids) == [k \in 1..n |-> Process(pids[k], a[k][1], a[k][2], a[k][3])]

AlgoNames == {"FCFS", "SJF", "PRIORITY", "RR", "ROUND_ROBIN", "SRTF"}

\* Only round_robin reads quantum: the requests for the other names leave it
\* out, and simulate_api fills in its default.
Quanta(name) == IF name = "RR" THEN (0 - 1)..MaxQuantum ELSE {DefaultQuantum}

\* Before the dispatch no algorithm has locals, and there is no Result before
\* the return.
NoLocals == [none |-> TRUE]
NoResult == [none |-> TRUE]

Init ==
    /\ algo \in AlgoNames
    /\ \/ items = SeedItems
       \/ \E n \in 0..MaxProcs : \E a \in [1..n -> Attrs(algo)] :
              \E pids \in PidOrders(n) : items = Items(n, a, pids)
    /\ quantum \in Quanta(algo)
    /\ procs = << >>
    /\ pc = "request"
    /\ loc = NoLocals
    /\ result = NoResult

\* simulate_api up to the first loop test of the selected algorithm.
Dispatch ==
    /\ pc = "request"
    /\ procs' = parse_processes(items)
    /\ pc' = RunOneTarget(algo)
    /\ loc' = CASE pc' = "fcfs" -> FcfsInit(procs')
                [] pc' = "sjf" -> ReadyInit(procs')
                [] pc' = "priority" -> ReadyInit(procs')
                [] pc' = "rr" -> RoundRobinInit(procs', ClampQuantum(quantum))
    /\ UNCHANGED <<items, algo, quantum, result>>

FcfsLoop ==
    /\ pc = "fcfs"
    /\ FcfsMore(loc)
    /\ loc' = FcfsStep(loc)
    /\ UNCHANGED <<items, algo, quantum, procs, pc, result>>

SjfLoop ==
    /\ pc = "sjf"
    /\ ReadyMore(loc)
    /\ loc' = SjfStep(loc)
    /\ UNCHANGED <<items, algo, quantum, procs, pc, result>>

PriorityLoop ==
    /\ pc = "priority"
    /\ ReadyMore(loc)
    /\ loc' = PriorityStep(loc)
    /\ UNCHANGED <<items, algo, quantum, procs, pc, result>>

RoundRobinLoop ==
    /\ pc = "rr"
    /\ RoundRobinMore(loc)
    /\ loc' = RoundRobinStep(loc)
    /\ UNCHANGED <<items, algo, quantum, procs, pc, result>>

Running == pc \in {"fcfs", "sjf", "priority", "rr"}

More ==
    CASE pc = "fcfs" -> FcfsMore(loc)
      [] pc = "sjf" -> ReadyMore(loc)
      [] pc = "priority" -> ReadyMore(loc)
      [] pc = "rr" -> RoundRobinMore(loc)

Label ==
    CASE pc = "fcfs" -> FcfsLabel
      [] pc = "sjf" -> SjfLabel
      [] pc = "priority" -> PriorityLabel
      [] pc = "rr" -> RoundRobinLabel(loc.quantum)

\* return compute_metrics(<label>, processes, timeline)
Return ==
    /\ Running
    /\ ~More
    /\ result' = compute_metrics(Label, procs, loc.timeline)
    /\ pc' = "done"
    /\ UNCHANGED <<items, algo, quantum, procs, loc>>

Next ==
    \/ Dispatch
    \/ FcfsLoop
    \/ SjfLoop
    \/ PriorityLoop
    \/ RoundRobinLoop
    \/ Return

Spec == Init /\ [][Next]_vars

\* The handler is synchronous, single-threaded code: a statement that can run
\* does run.
FairSpec == Spec /\ WF_vars(Next)

(***************************************************************************)
(* Vocabulary of the properties.                                           *)
(***************************************************************************)
Done == pc = "done"

RanFcfs == Done /\ result.algorithm = FcfsLabel
RanRoundRobin == Done /\ Len(result.algorithm) = Len(RoundRobinLabel(0))

RECURSIVE SumOfSeq(_)
SumOfSeq(s) == IF s = << >> THEN 0 ELSE Head(s) + SumOfSeq(Tail(s))

\* The slices of pid, in timeline order.
SlicesOf(timeline, pid) == SelectSeq(timeline, LAMBDA sl : sl.pid = pid)

\* The CPU time the timeline gives to pid.
SliceTime(timeline, pid) ==
    SumOfSeq([k \in 1..Len(SlicesOf(timeline, pid)) |->
                 SlicesOf(timeline, pid)[k].end - SlicesOf(timeline, pid)[k].start])

LargestBurst(ps) == MaxOfSet({ps[k].burst : k \in 1..Len(ps)})

UniquePids(ps) == \A j, k \in 1..Len(ps) : ps[j].pid = ps[k].pid => j = k

\* The inputs the data model allows: unique pids, arrival >= 0, burst >= 1.
WellFormed(ps) ==
    /\ UniquePids(ps)
    /\ \A k \in 1..Len(ps) : ps[k].arrival >= 0 /\ ps[k].burst >= 1

Zero == [num |-> 0, den |-> 1]

(***************************************************************************)
(* C1 Conservation: in the timeline of every finished run (each of the     *)
(* four algorithms, round robin with the quantum it was started with,      *)
(* which is >= 1), the slice durations of every process add up to its      *)
(* burst.                                                                  *)
(***************************************************************************)
C1_Conservation ==
    (Done /\ WellFormed(procs)) =>
        \A k \in 1..Len(procs) :
            SliceTime(result.timeline, procs[k].pid) = procs[k].burst

\* A round-robin run in which a process was preempted and ran in several slices.
C1_Witness ==
    /\ RanRoundRobin
    /\ Len(procs) >= 2
    /\ \E k \in 1..Len(procs) : Len(SlicesOf(result.timeline, procs[k].pid)) >= 2

(***************************************************************************)
(* C2 Ordering: the timeline of every finished run is sorted by start,     *)
(* every slice has end > start, and consecutive slices do not overlap.     *)
(***************************************************************************)
C2_Ordering ==
    (Done /\ WellFormed(procs)) =>
        LET tl == result.timeline
        IN /\ \A k \in 1..Len(tl) : tl[k].end > tl[k].start
           /\ \A k \in 1..(Len(tl) - 1) :
                  /\ tl[k].start <= tl[k + 1].start
                  /\ tl[k].end <= tl[k + 1].start

\* A finished run of three or more slices, with an idle gap between two of them.
C2_Witness ==
    /\ Done
    /\ Len(result.timeline) >= 3
    /\ \E k \in 1..(Len(result.timeline) - 1) :
           result.timeline[k].end < result.timeline[k + 1].start

(***************************************************************************)
(* C3 Quantum equivalence: a round-robin run whose quantum is at least the *)
(* largest burst gives every process exactly one slice, the slice FCFS     *)
(* gives it on the same list.                                              *)
(***************************************************************************)
C3_QuantumEquivalence ==
    (RanRoundRobin /\ procs # << >> /\ loc.quantum >= LargestBurst(procs)) =>
        \A k \in 1..Len(procs) :
            /\ Len(SlicesOf(result.timeline, procs[k].pid)) = 1
            /\ SlicesOf(result.timeline, procs[k].pid)
                   = SlicesOf(fcfs(procs).timeline, procs[k].pid)

\* Such a run with a burst equal to the quantum (larger than 1) and a
\* process that has to wait for the one before it.
C3_Witness ==
    /\ RanRoundRobin
    /\ Len(procs) >= 2
    /\ loc.quantum = LargestBurst(procs)
    /\ loc.quantum > 1
    /\ \E k \in 1..Len(procs) : result.waiting_times[procs[k].pid] > 0

(***************************************************************************)
(* C4 Metric identity: in every Result, for every process,                 *)
(* turnaround_time = waiting_time + burst and waiting_time >= 0.           *)
(***************************************************************************)
C4_MetricIdentity ==
    (Done /\ WellFormed(procs)) =>
        \A k \in 1..Len(procs) :
            /\ result.turnaround_times[procs[k].pid]
                   = result.waiting_times[procs[k].pid] + procs[k].burst
            /\ result.waiting_times[procs[k].pid] >= 0

\* A round-robin Result with a process that waited between its slices:
\* its waiting time exceeds its response time.
C4_Witness ==
    /\ RanRoundRobin
    /\ \E k \in 1..Len(procs) :
           /\ Len(SlicesOf(result.timeline, procs[k].pid)) >= 2
           /\ result.waiting_times[procs[k].pid] > result.response_times[procs[k].pid]

(***************************************************************************)
(* C5 Quantum clamping: a round-robin request with a quantum below 1       *)
(* returns exactly the Result of round robin with quantum 1 on the same    *)
(* process list.                                                           *)
(***************************************************************************)
C5_QuantumClamping ==
    (Done /\ algo = "RR" /\ quantum < 1) => result = round_robin(procs, 1)

\* A finished request with a negative quantum in which a process was
\* preempted after one time unit.
C5_Witness ==
    /\ Done
    /\ algo = "RR"
    /\ quantum < 0
    /\ Len(procs) >= 2
    /\ Len(result.timeline) > Len(procs)

(***************************************************************************)
(* C6 Unknown algorithm fallback: a request whose algorithm name is not    *)
(* one the handler recognizes finishes with the Result of FCFS on the      *)
(* same process list.                                                      *)
(***************************************************************************)
C6_UnknownFallback ==
    (Done /\ algo \notin {"FCFS", "SJF", "PRIORITY", "RR"}) => result = fcfs(procs)

\* A finished request for an unknown name on a list that SJF would run in
\* another order.
C6_Witness ==
    /\ Done
    /\ algo = "SRTF"
    /\ result.timeline # sjf_non_preemptive(procs).timeline

(***************************************************************************)
(* C7 Dispatch by name, as claimed: a request with the name ROUND_ROBIN    *)
(* and quantum q >= 1 returns the round-robin timeline for q.              *)
(***************************************************************************)
C7_RoundRobinName ==
    (Done /\ algo = "ROUND_ROBIN" /\ quantum >= 1) =>
        result.timeline = round_robin(procs, quantum).timeline

(***************************************************************************)
(* C7 Dispatch by name, amended: the four names that select their own      *)
(* algorithm are FCFS, SJF, PRIORITY and RR (RR with quantum q runs round  *)
(* robin with max(1, q)); every other name, ROUND_ROBIN included, takes    *)
(* the FCFS fallback.                                                      *)
(***************************************************************************)
C7_DispatchByName ==
    Done =>
        result = CASE algo = "FCFS" -> fcfs(procs)
                   [] algo = "SJF" -> sjf_non_preemptive(procs)
                   [] algo = "PRIORITY" -> priority_non_preemptive(procs)
                   [] algo = "RR" ->
                        round_robin(procs, IF quantum < 1 THEN 1 ELSE quantum)
                   [] OTHER -> fcfs(procs)

\* A finished RR request whose timeline is not the FCFS one.
C7_Witness ==
    /\ Done
    /\ algo = "RR"
    /\ quantum >= 1
    /\ result.timeline # fcfs(procs).timeline

(***************************************************************************)
(* C8 Empty input: on an empty process list every algorithm leaves its     *)
(* loop at once and returns an empty timeline, empty waiting, response     *)
(* and turnaround mappings and the three averages 0.                       *)
(***************************************************************************)
C8_EmptyInput ==
    /\ (Running /\ procs = << >>) => (~More /\ loc.timeline = << >>)
    /\ (Done /\ procs = << >>) =>
           /\ result.timeline = << >>
           /\ DOMAIN result.waiting_times = {}
           /\ DOMAIN result.response_times = {}
           /\ DOMAIN result.turnaround_times = {}
           /\ result.avg_waiting = Zero
           /\ result.avg_response = Zero
           /\ result.avg_turnaround = Zero

\* A finished SJF request with no processes.
C8_Witness ==
    /\ Done
    /\ items = << >>
    /\ algo = "SJF"
    /\ result.algorithm = SjfLabel

(***************************************************************************)
(* C9 Seed scenario: FCFS on P1(0,7,2) P2(2,4,1) P3(4,1,3) P4(5,4,2)       *)
(* gives P1[0,7) P2[7,11) P3[11,12) P4[12,16), waiting times 0, 5, 7, 7,   *)
(* avg_waiting 19/4 = 4.75 and avg_turnaround 35/4 = 8.75.                 *)
(***************************************************************************)
C9_SeedScenario ==
    (RanFcfs /\ items = SeedItems) =>
        /\ result.timeline = << Slice("P1", 0, 7), Slice("P2", 7, 11),
                                Slice("P3", 11, 12), Slice("P4", 12, 16) >>
        /\ result.waiting_times
               = ("P1" :> 0) @@ ("P2" :> 5) @@ ("P3" :> 7) @@ ("P4" :> 7)
        /\ SumOfMap(result.waiting_times, DOMAIN result.waiting_times) = 19
        /\ SumOfMap(result.turnaround_times, DOMAIN result.turnaround_times) = 35
        /\ result.avg_waiting = Ratio(475, 100)
        /\ result.avg_turnaround = Ratio(875, 100)

\* The finished FCFS request on the seed processes.
C9_Witness ==
    /\ RanFcfs
    /\ algo = "FCFS"
    /\ items = SeedItems
    /\ Len(result.timeline) = 4

(***************************************************************************)
(* C10 Round Robin re-queue ordering: after a slice that leaves its        *)
(* process p unfinished, every process that has arrived by the slice end   *)
(* is admitted and p is the last entry of the queue; so in the timeline    *)
(* every process that has arrived by the end of a slice of p and has not   *)
(* run yet gets a slice before p gets its next one.                        *)
(***************************************************************************)
C10_RequeueOrdering ==
    (pc = "rr" /\ UniquePids(procs)) =>
        LET tl == loc.timeline
            n == Len(tl)
        IN /\ (n > 0 /\ \E j \in 1..Len(loc.queue) : loc.queue[j].proc.pid = tl[n].pid) =>
                  /\ loc.queue[Len(loc.queue)].proc.pid = tl[n].pid
                  /\ \A k \in 1..Len(loc.procs) :
                         loc.procs[k].arrival <= tl[n].end => k <= loc.i
           /\ \A k \in 1..n : \A k2 \in (k + 1)..n :
                  (tl[k2].pid = tl[k].pid) =>
                      \A m \in 1..Len(procs) :
                          (/\ procs[m].pid # tl[k].pid
                           /\ procs[m].arrival <= tl[k].end
                           /\ \A j \in 1..k : tl[j].pid # procs[m].pid)
                          => \E j \in (k + 1)..(k2 - 1) : tl[j].pid = procs[m].pid

\* A process is preempted, a process that arrives exactly at the slice end
\* runs next, and the preempted process runs after it.
C10_Witness ==
    /\ pc = "rr"
    /\ \E k \in 1..(Len(loc.timeline) - 2) : \E m \in 1..Len(procs) :
           /\ loc.timeline[k].pid # procs[m].pid
           /\ procs[m].arrival = loc.timeline[k].end
           /\ loc.timeline[k + 1].pid = procs[m].pid
           /\ loc.timeline[k + 2].pid = loc.timeline[k].pid

\* The process of the request with the given pid.
ProcOf(pid) == procs[CHOOSE k \in 1..Len(procs) : procs[k].pid = pid]

\* The processes that have arrived by time t and have no slice among the
\* first n slices of the timeline.
Waiting(timeline, n, t) ==
    {k \in 1..Len(procs) :
        /\ procs[k].arrival <= t
        /\ \A j \in 1..n : timeline[j].pid # procs[k].pid}

(***************************************************************************)
(* C11 SJF selection: whenever SJF has just started a slice at clock t,    *)
(* the process of the slice has the least (burst, arrival, pid) among the  *)
(* processes that had arrived by t and had not run before; no such         *)
(* process with a smaller key is still waiting.                            *)
(***************************************************************************)
C11_SjfSelection ==
    (pc = "sjf" /\ UniquePids(procs) /\ loc.timeline # << >>) =>
        LET n == Len(loc.timeline)
            sl == loc.timeline[n]
        IN /\ ProcOf(sl.pid).arrival <= sl.start
           /\ \A k \in Waiting(loc.timeline, n, sl.start) :
                  TupleLess(SjfKey(ProcOf(sl.pid)), SjfKey(procs[k]))

\* SJF has just started the shorter of two waiting processes, and it is not
\* the one that comes first in (arrival, pid) order.
C11_Witness ==
    /\ pc = "sjf"
    /\ loc.timeline # << >>
    /\ LET n == Len(loc.timeline)
           sl == loc.timeline[n]
       IN \E k \in Waiting(loc.timeline, n, sl.start) :
              /\ procs[k].burst > ProcOf(sl.pid).burst
              /\ TupleLess(ArrivalPidKey(procs[k]), ArrivalPidKey(ProcOf(sl.pid)))

(***************************************************************************)
(* C12 Priority selection: whenever the priority algorithm has just        *)
(* started a slice at clock t, the process of the slice has the least      *)
(* (priority, arrival, pid) among the processes that had arrived by t and  *)
(* had not run before: the lower priority number runs first.               *)
(***************************************************************************)
C12_PrioritySelection ==
    (pc = "priority" /\ UniquePids(procs) /\ loc.timeline # << >>) =>
        LET n == Len(loc.timeline)
            sl == loc.timeline[n]
        IN /\ ProcOf(sl.pid).arrival <= sl.start
           /\ \A k \in Waiting(loc.timeline, n, sl.start) :
                  TupleLess(PriorityKey(ProcOf(sl.pid)), PriorityKey(procs[k]))

\* The priority algorithm has just started the more urgent of two waiting
\* processes, and it is not the one that comes first in (arrival, pid) order.
C12_Witness ==
    /\ pc = "priority"
    /\ loc.timeline # << >>
    /\ LET n == Len(loc.timeline)
           sl == loc.timeline[n]
       IN \E k \in Waiting(loc.timeline, n, sl.start) :
              /\ procs[k].priority > ProcOf(sl.pid).priority
              /\ TupleLess(ArrivalPidKey(procs[k]), ArrivalPidKey(ProcOf(sl.pid)))

(***************************************************************************)
(* C13 FCFS order: on the list the handler passes (sorted by arrival, then *)
(* pid) FCFS emits one slice per process, in ascending (arrival, pid)      *)
(* order of the processes, and each slice is [s, s + burst) with           *)
(* s = max(end of the previous slice or 0, arrival of its process).        *)
(***************************************************************************)
C13_FcfsOrder ==
    (RanFcfs /\ UniquePids(procs)) =>
        LET tl == result.timeline
            PrevEnd(k) == IF k = 1 THEN 0 ELSE tl[k - 1].end
        IN /\ Len(tl) = Len(procs)
           /\ \A k \in 1..(Len(tl) - 1) :
                  TupleLess(ArrivalPidKey(ProcOf(tl[k].pid)),
                            ArrivalPidKey(ProcOf(tl[k + 1].pid)))
           /\ \A k \in 1..Len(tl) :
                  /\ tl[k].start = Max2(PrevEnd(k), ProcOf(tl[k].pid).arrival)
                  /\ tl[k].end = tl[k].start + ProcOf(tl[k].pid).burst

\* A finished FCFS run on two processes of equal arrival that were listed in
\* descending pid order, the first of which had to be waited for.
C13_Witness ==
    /\ RanFcfs
    /\ Len(items) = 2
    /\ items[1].arrival = items[2].arrival
    /\ items[1].arrival > 0
    /\ PidRank(items[1].pid) > PidRank(items[2].pid)
    /\ result.timeline[1].pid = items[2].pid

(***************************************************************************)
(* C14 Work conservation: in every finished timeline a slice starts at or  *)
(* after the end of the one before it (0 for the first); where it starts   *)
(* later, every process that had arrived by that end had finished its      *)
(* burst, and the slice starts at the earliest arrival among the           *)
(* processes that had not arrived yet.                                     *)
(***************************************************************************)
C14_WorkConservation ==
    (Done /\ WellFormed(procs)) =>
        LET tl == result.timeline
            PrevEnd(k) == IF k = 0 THEN 0 ELSE tl[k].end
        IN \A k \in 0..(Len(tl) - 1) :
               /\ tl[k + 1].start >= PrevEnd(k)
               /\ tl[k + 1].start > PrevEnd(k) =>
                      /\ \A m \in 1..Len(procs) :
                             procs[m].arrival <= PrevEnd(k) =>
                                 SliceTime(SubSeq(tl, 1, k), procs[m].pid) = procs[m].burst
                      /\ tl[k + 1].start =
                             MinOfSet({procs[m].arrival : m \in
                                 {j \in 1..Len(procs) : procs[j].arrival > PrevEnd(k)}})

\* A finished SJF run with an idle gap between its first two slices.
C14_Witness ==
    /\ Done
    /\ result.algorithm = SjfLabel
    /\ Len(result.timeline) >= 2
    /\ result.timeline[2].start > result.timeline[1].end

RanNonPreemptive ==
    Done /\ result.algorithm \in {FcfsLabel, SjfLabel, PriorityLabel}

(***************************************************************************)
(* C15 Non-preemption: in a finished FCFS, SJF or priority timeline every  *)
(* process has exactly one slice, as long as its burst: no process that    *)
(* arrives during a slice splits it.                                       *)
(***************************************************************************)
C15_NonPreemption ==
    (RanNonPreemptive /\ WellFormed(procs)) =>
        \A k \in 1..Len(procs) :
            LET own == SlicesOf(result.timeline, procs[k].pid)
            IN /\ Len(own) = 1
               /\ own[1].end - own[1].start = procs[k].burst

\* A finished priority run in which a more urgent process arrived strictly
\* inside the slice of another.
C15_Witness ==
    /\ Done
    /\ result.algorithm = PriorityLabel
    /\ \E j \in 1..Len(result.timeline) : \E k \in 1..Len(procs) :
           /\ procs[k].priority < ProcOf(result.timeline[j].pid).priority
           /\ result.timeline[j].start < procs[k].arrival
           /\ procs[k].arrival < result.timeline[j].end

(***************************************************************************)
(* C16 Metrics definitions: in every Result, for every process,            *)
(* response_time is the least start among its slices minus its arrival,    *)
(* and turnaround_time is the greatest end among its slices minus its      *)
(* arrival.                                                                *)
(***************************************************************************)
C16_MetricsDefinitions ==
    (Done /\ WellFormed(procs)) =>
        \A k \in 1..Len(procs) :
            LET own == SliceIndexes(result.timeline, procs[k].pid)
            IN /\ own # {}
               /\ result.response_times[procs[k].pid] =
                      MinOfSet({result.timeline[j].start : j \in own}) - procs[k].arrival
               /\ result.turnaround_times[procs[k].pid] =
                      MaxOfSet({result.timeline[j].end : j \in own}) - procs[k].arrival

\* A round-robin Result with a process whose slices are separated by a
\* slice of another process.
C16_Witness ==
    /\ RanRoundRobin
    /\ \E j \in 1..(Len(result.timeline) - 2) :
           /\ result.timeline[j].pid = result.timeline[j + 2].pid
           /\ result.timeline[j].pid # result.timeline[j + 1].pid

\* The loop of the algorithm that ran has nothing left: every process was
\* admitted and the ready list / queue is empty.
Drained ==
    /\ loc.i = Len(loc.procs)
    /\ ("ready" \in DOMAIN loc) => loc.ready = << >>
    /\ ("queue" \in DOMAIN loc) => loc.queue = << >>

(***************************************************************************)
(* C17 Termination: every request (arrival >= 0, burst >= 1, round robin   *)
(* with its quantum clamped to >= 1) eventually leaves the loop of its     *)
(* algorithm with every process admitted, the ready list / queue empty     *)
(* and every process run for its whole burst.                              *)
(***************************************************************************)
C17_Termination ==
    <>(/\ Done
       /\ Drained
       /\ \A k \in 1..Len(procs) :
              SliceTime(result.timeline, procs[k].pid) = procs[k].burst)

\* A finished priority run that had to jump over an idle gap and left
\* nothing in its ready list.
C17_Witness ==
    /\ Done
    /\ result.algorithm = PriorityLabel
    /\ Drained
    /\ Len(procs) >= 2
    /\ \E k \in 1..(Len(result.timeline) - 1) :
           result.timeline[k].end < result.timeline[k + 1].start

\* The length of the k-th slice of a sequence of slices.
SliceLen(own, k) == own[k].end - own[k].start

\* The burst left to a process of burst b before the k-th of its slices.
RECURSIVE RemainingBefore(_, _, _)
RemainingBefore(own, b, k) ==
    IF k = 1 THEN b ELSE RemainingBefore(own, b, k - 1) - SliceLen(own, k - 1)

(***************************************************************************)
(* C18 Round Robin slice length: in a finished round-robin timeline with   *)
(* quantum q every slice is as long as min(q, burst left to its process    *)
(* when it was taken from the queue); so no slice is longer than q, every  *)
(* slice of a process but its last is exactly q long, and a process of     *)
(* burst b has ceil(b / q) slices.                                         *)
(***************************************************************************)
C18_SliceLength ==
    (RanRoundRobin /\ WellFormed(procs)) =>
        LET q == loc.quantum
        IN \A k \in 1..Len(procs) :
               LET own == SlicesOf(result.timeline, procs[k].pid)
                   b == procs[k].burst
               IN /\ \A j \in 1..Len(own) :
                         /\ SliceLen(own, j) = Min2(q, RemainingBefore(own, b, j))
                         /\ SliceLen(own, j) <= q
                  /\ \A j \in 1..(Len(own) - 1) : SliceLen(own, j) = q
                  /\ Len(own) = (b + q - 1) \div q

\* A finished round-robin run with a process that has several slices, the
\* last of them shorter than the quantum.
C18_Witness ==
    /\ RanRoundRobin
    /\ \E k \in 1..Len(procs) :
           LET own == SlicesOf(result.timeline, procs[k].pid)
           IN /\ Len(own) >= 3
              /\ SliceLen(own, Len(own)) < loc.quantum

(***************************************************************************)
(* C19 No execution before arrival: in every finished timeline every       *)
(* slice starts at or after the arrival of its process, and every          *)
(* response time is >= 0.                                                  *)
(***************************************************************************)
C19_NoEarlyStart ==
    (Done /\ WellFormed(procs)) =>
        /\ \A j \in 1..Len(result.timeline) :
               result.timeline[j].start >= ProcOf(result.timeline[j].pid).arrival
        /\ \A k \in 1..Len(procs) : result.response_times[procs[k].pid] >= 0

\* A finished FCFS run in which the CPU was idle until the second process
\* arrived, and that process started at its arrival.
C19_Witness ==
    /\ RanFcfs
    /\ Len(result.timeline) >= 2
    /\ result.timeline[2].start > result.timeline[1].end
    /\ result.timeline[2].start = ProcOf(result.timeline[2].pid).arrival
    /\ result.response_times[result.timeline[2].pid] = 0

(***************************************************************************)
(* C20 Round Robin bounded waiting: between two consecutive slices of a    *)
(* process in a finished round-robin timeline every other process has at   *)
(* most one slice, and the process waits at most                           *)
(* (number of other processes) * quantum between the two.                  *)
(***************************************************************************)
C20_BoundedWaiting ==
    (RanRoundRobin /\ WellFormed(procs)) =>
        LET tl == result.timeline
        IN \A k \in 1..Len(tl) : \A k2 \in (k + 1)..Len(tl) :
               (/\ tl[k2].pid = tl[k].pid
                /\ \A j \in (k + 1)..(k2 - 1) : tl[j].pid # tl[k].pid)
               =>
               /\ \A m \in 1..Len(procs) :
                      Cardinality({j \in (k + 1)..(k2 - 1) : tl[j].pid = procs[m].pid}) <= 1
               /\ tl[k2].start - tl[k].end <= (Len(procs) - 1) * loc.quantum

\* A finished round-robin run in which a process waited between two of its
\* slices while each of two other processes had a slice.
C20_Witness ==
    /\ RanRoundRobin
    /\ \E k \in 1..(Len(result.timeline) - 3) :
           /\ result.timeline[k + 3].pid = result.timeline[k].pid
           /\ result.timeline[k + 1].pid # result.timeline[k].pid
           /\ result.timeline[k + 2].pid # result.timeline[k].pid
           /\ result.timeline[k + 1].pid # result.timeline[k + 2].pid

====
